---------------------------- MODULE Spec2Model ----------------------------
(***************************************************************************)
(* A model of the peptide / modification encoding and XGBoost batch        *)
(* prediction code of ms2pip:                                              *)
(*   src/ms2pip/_utils/peptides.py   Modifications, encode_peptide,        *)
(*                                   apply_modifications                   *)
(*   src/ms2pip/predict_xgboost.py   process_peptides_xgb and helpers      *)
(*                                                                         *)
(* Python strings are sequences of atoms.  An atom is a piece of text that *)
(* holds no separator ("Oxidation", "15.994915", "0") or is a separator    *)
(* itself ("," or "|"); str.split is then the real split of the sequence   *)
(* at its separators, so "" splits into one empty token, as in Python.     *)
(* Mass values are integers in micro-dalton.                               *)
(***************************************************************************)
EXTENDS Integers, Sequences, FiniteSets, TLC

VARIABLES
    \* ---- Modifications object (peptides.py:61-178)
    modifications,   \* self.modifications: ordered <<[mod_type, mods]>>, mods a dict
    _mass_shifts,    \* self._mass_shifts: <<>> is None, <<d>> is the dict d
    _ptm_ids,        \* self._ptm_ids: <<>> is None, <<d>> is the dict d
    _next_mod_id,    \* self._next_mod_id
    assigned,        \* history: the (name, mod_type, mod_id) of every entry stored
    last,            \* the last call on the registry: [op, arg, num, ret]
    \* ---- one encode_peptide / apply_modifications run (peptides.py:192-277)
    pin,             \* the caller's arguments: [peptide, modifications, ptm_ids]
    heap,            \* the numpy arrays alive, by reference (index)
    ppc,             \* "start", "encoded", "applied" or "raised"
    enc_ret,         \* what encode_peptide gave: a reference, or an exception
    app_ret,         \* what apply_modifications gave: a reference, or an exception
    before,          \* the caller's array as it was when apply_modifications began
    \* ---- one process_peptides_xgb call (predict_xgboost.py:22-174)
    fs,              \* ~/.ms2pip: [dir, files], files[m] a digest or "absent"
    xin,             \* the arguments: [peprec, ion_types, ptm_ids]
    xpc,             \* "start", "loop", "download", "returned" or "raised"
    xit,             \* place of the for loop in xgboost_model_files (1-based)
    num_rows,        \* rows of feature_vectors
    flats,           \* the flat vector bst.predict gave, per ion type done
    preds_list,      \* preds_list
    xstep,           \* the function that ran last
    xret,            \* what the call gave: the predictions, or an exception
    \* ---- callers that run lines 35-36 for one model file at the same time
    callers          \* per caller [pc, ret]: where it stands in
                     \* check_model_presence / download_model, what it raised

regvars == <<modifications, _mass_shifts, _ptm_ids, _next_mod_id, assigned, last>>
pepvars == <<pin, heap, ppc, enc_ret, app_ret, before>>
xgbvars == <<fs, xin, xpc, xit, num_rows, flats, preds_list, xstep, xret>>
dlvars == <<callers>>
vars == <<regvars, pepvars, xgbvars, dlvars>>

-----------------------------------------------------------------------------
(* Python values *)

None == <<>>
Some(d) == <<d>>
EmptyDict == [k \in {} |-> 0]

\* What a call gives: a return value (exc = "") or a raised exception.
Return(v) == [exc |-> "", msg |-> "", val |-> v]
Raise(e, m) == [exc |-> e, msg |-> m, val |-> <<>>]

\* "".join(atoms): the text of a token.
RECURSIVE Text(_)
Text(tok) == IF tok = <<>> THEN "" ELSE Head(tok) \o Text(Tail(tok))

\* str.split(sep): the tokens between the separators; n separators give n+1 tokens.
RECURSIVE SplitFrom(_, _, _)
SplitFrom(s, sep, cur) ==
    IF s = <<>> THEN <<cur>>
    ELSE IF Head(s) = sep THEN <<cur>> \o SplitFrom(Tail(s), sep, <<>>)
    ELSE SplitFrom(Tail(s), sep, Append(cur, Head(s)))

Split(s, sep) == SplitFrom(s, sep, <<>>)

\* sep.join(tokens), each token a text.
RECURSIVE Join(_, _)
Join(toks, sep) ==
    IF toks = <<>> THEN <<>>
    ELSE IF Len(toks) = 1 THEN <<toks[1]>>
    ELSE <<toks[1], sep>> \o Join(Tail(toks), sep)

\* All sequences over S of length at most n.
SeqsUpTo(S, n) == UNION {[1..k -> S] : k \in 0..n}

-----------------------------------------------------------------------------
(* Amino acid table, peptides.py:12-58 *)

AMINO_ACIDS ==
    <<"A", "C", "D", "E", "F", "G", "H", "I", "K", "M",
      "N", "P", "Q", "R", "S", "T", "V", "W", "Y">>

AminoAcidSet == {AMINO_ACIDS[i] : i \in 1..Len(AMINO_ACIDS)}

\* AMINO_ACID_IDS = {a: i for i, a in enumerate(AMINO_ACIDS)}
AMINO_ACID_IDS == [a \in AminoAcidSet |->
                      (CHOOSE i \in 1..Len(AMINO_ACIDS) : AMINO_ACIDS[i] = a) - 1]

\* PROTON_MASS = 1.007825032070059, in micro-dalton
PROTON_MASS == 1007825

-----------------------------------------------------------------------------
(* Modifications, peptides.py:61-178 *)

\* Bounds of the registry runs.
MaxRegistered == 3      \* entries stored over a whole run
MaxModstrings == 2      \* modstrings in one add_from_ms2pip_modstrings call

\* self._next_mod_id = 38
FirstModId == 38

\* The modstrings offered to add_from_ms2pip_modstrings: three well-formed ones
\* (two of them for the same name, with different mass shifts) and one with an
\* amino acid outside the table.
Modstring(name, mass_shift, amino_acid) ==
    <<name, ",", mass_shift, ",", "opt", ",", amino_acid>>

RegModstrings ==
    { Modstring("Oxidation", "15.994915", "M"),
      Modstring("Oxidation", "42.010565", "L"),
      Modstring("Acetyl", "42.010565", "N-term"),
      Modstring("Oxidation", "15.994915", "B") }

ModTypes == {"ptm", "sptm"}

\* float(text), in micro-dalton: [ok, val].
ParseFloat(text) ==
    CASE text = "15.994915" -> [ok |-> TRUE, val |-> 15994915]
      [] text = "42.010565" -> [ok |-> TRUE, val |-> 42010565]
      [] OTHER -> [ok |-> FALSE, val |-> 0]

\* peptides.py:98-107: the amino_acid_id of a target, [ok, id].
TargetId(amino_acid) ==
    IF amino_acid = "N-term" THEN [ok |-> TRUE, id |-> -1]
    ELSE IF amino_acid = "C-term" THEN [ok |-> TRUE, id |-> -2]
    ELSE IF amino_acid = "L" THEN [ok |-> TRUE, id |-> AMINO_ACID_IDS["I"]]
    ELSE IF amino_acid \in DOMAIN AMINO_ACID_IDS
         THEN [ok |-> TRUE, id |-> AMINO_ACID_IDS[amino_acid]]
    ELSE [ok |-> FALSE, id |-> 0]

\* Index of mod_type in self.modifications, 0 when it is no key.
ModTypeIndex(mods, mod_type) ==
    IF \E i \in 1..Len(mods) : mods[i].mod_type = mod_type
    THEN CHOOSE i \in 1..Len(mods) : mods[i].mod_type = mod_type
    ELSE 0

\* peptides.py:91-92
EnsureModType(mods, mod_type) ==
    IF ModTypeIndex(mods, mod_type) = 0
    THEN Append(mods, [mod_type |-> mod_type, mods |-> EmptyDict])
    ELSE mods

\* d[k] = v
DictSet(d, k, v) == [x \in DOMAIN d \cup {k} |-> IF x = k THEN v ELSE d[x]]

\* peptides.py:115 with the counter stuck.
NextModIdStuck(id) == id

\* peptides.py:115: self._next_mod_id += 1
NextModId(id) == id + 1

\* peptides.py:96-115, one pass of the loop body on the state
\* st = [mods, next, log, ret]; ret.exc # "" when the pass raised.
RegisterOne(st, mod, mod_type) ==
    LET f == Split(mod, ",") IN
    IF Len(f) # 4 THEN [st EXCEPT !.ret = Raise("ValueError", "unpack")]
    ELSE
      LET mod_name == Text(f[1])
          mass_shift == Text(f[2])
          amino_acid == Text(f[4])
          t == TargetId(amino_acid)
          m == ParseFloat(mass_shift)
          i == ModTypeIndex(st.mods, mod_type)
          entry == [mass_shift |-> m.val,
                    amino_acid |-> amino_acid,
                    amino_acid_id |-> t.id,
                    mod_id |-> st.next]
      IN IF ~t.ok THEN [st EXCEPT !.ret = Raise("InvalidAminoAcidError", amino_acid)]
         ELSE IF ~m.ok THEN [st EXCEPT !.ret = Raise("ValueError", "float")]
         ELSE [mods |-> [st.mods EXCEPT ![i].mods = DictSet(@, mod_name, entry)],
               next |-> NextModId(st.next),
               log |-> Append(st.log, [name |-> mod_name, mod_type |-> mod_type,
                                       mod_id |-> st.next]),
               ret |-> st.ret]

\* peptides.py:95: for mod in modstrings, left at the first pass that raises.
RECURSIVE RegisterLoop(_, _, _)
RegisterLoop(st, modstrings, mod_type) ==
    IF modstrings = <<>> THEN st
    ELSE LET r == RegisterOne(st, Head(modstrings), mod_type)
         IN IF r.ret.exc # "" THEN r
            ELSE RegisterLoop(r, Tail(modstrings), mod_type)

\* peptides.py:117: self._mass_shifts = None
Invalidate(cache) == None

\* peptides.py:72-117
add_from_ms2pip_modstrings(modstrings, mod_type) ==
    LET r == RegisterLoop([mods |-> EnsureModType(modifications, mod_type),
                           next |-> _next_mod_id,
                           log |-> assigned,
                           ret |-> Return(<<>>)],
                          modstrings, mod_type)
    IN /\ Len(assigned) + Len(modstrings) <= MaxRegistered
       /\ modifications' = r.mods
       /\ _next_mod_id' = r.next
       /\ assigned' = r.log
       /\ _mass_shifts' = IF r.ret.exc = "" THEN Invalidate(_mass_shifts)
                          ELSE _mass_shifts
       /\ UNCHANGED _ptm_ids
       /\ last' = [op |-> "add_from_ms2pip_modstrings", arg |-> <<mod_type>>,
                   num |-> <<>>, ret |-> r.ret]

\* The place in the chain of the entry a dict comprehension keeps for name,
\* were the first item of a name to win.
KeptFirst(mods, name) ==
    CHOOSE i \in 1..Len(mods) :
        /\ name \in DOMAIN mods[i].mods
        /\ \A j \in 1..Len(mods) : name \in DOMAIN mods[j].mods => i <= j

\* peptides.py:119-123 and the dict comprehensions of 129 and 136: the chain
\* visits the categories in the order of self.modifications and a later item
\* of a name replaces an earlier one, so the last category holding the name wins.
Kept(mods, name) ==
    CHOOSE i \in 1..Len(mods) :
        /\ name \in DOMAIN mods[i].mods
        /\ \A j \in 1..Len(mods) : name \in DOMAIN mods[j].mods => j <= i

\* The names of self._all_modifications
AllNames(mods) == UNION {DOMAIN mods[i].mods : i \in 1..Len(mods)}

\* peptides.py:129: {name: mod["mass_shift"] for name, mod in self._all_modifications}
MassShiftDict(mods) ==
    [name \in AllNames(mods) |-> mods[Kept(mods, name)].mods[name].mass_shift]

\* peptides.py:136: {name: mod["mod_id"] for name, mod in self._all_modifications}
PtmIdDict(mods) ==
    [name \in AllNames(mods) |-> mods[Kept(mods, name)].mods[name].mod_id]

\* `not cache`: None and the empty dict are both falsy.
Falsy(cache) == cache = None \/ DOMAIN cache[1] = {}

\* peptides.py:125-130: the property's value, which it also leaves in the cache.
mass_shifts == IF Falsy(_mass_shifts) THEN MassShiftDict(modifications)
               ELSE _mass_shifts[1]

\* peptides.py:132-137
ptm_ids == IF Falsy(_ptm_ids) THEN PtmIdDict(modifications) ELSE _ptm_ids[1]

\* d[k]
Subscript(d, k) == IF k \in DOMAIN d THEN Return(<<d[k]>>) ELSE Raise("KeyError", k)

LookupNames == {"Oxidation", "Acetyl"}

\* self.mass_shifts[name]
ReadMassShift(name) ==
    /\ _mass_shifts' = Some(mass_shifts)
    /\ last' = [op |-> "mass_shifts", arg |-> <<name>>, num |-> <<>>,
                ret |-> Subscript(mass_shifts, name)]
    /\ UNCHANGED <<modifications, _ptm_ids, _next_mod_id, assigned>>

\* self.ptm_ids[name]
ReadPtmId(name) ==
    /\ _ptm_ids' = Some(ptm_ids)
    /\ last' = [op |-> "ptm_ids", arg |-> <<name>>, num |-> <<>>,
                ret |-> Subscript(ptm_ids, name)]
    /\ UNCHANGED <<modifications, _mass_shifts, _next_mod_id, assigned>>

\* The modification strings offered to calc_precursor_mz.
CalcModifications ==
    { <<>>, <<"-">>,
      Join(<<"0", "Acetyl">>, "|"),
      Join(<<"0", "Acetyl", "2", "Oxidation">>, "|"),
      Join(<<"2", "Oxidation", "0", "Acetyl">>, "|"),
      Join(<<"2", "Phospho">>, "|"),
      Join(<<"0", "Acetyl", "2">>, "|") }

\* What pyteomics' mass.fast_mass(peptide) returned, in micro-dalton.
UnmodifiedMasses == {445120000}

Charges == {1, 2}

\* seq[1::2]: the items at Python's odd indexes.
OddItems(seq) == [k \in 1..(Len(seq) \div 2) |-> seq[2 * k]]

\* sum([d[Text(tok)] for tok in toks]): the sum, or the KeyError of the first
\* token that is no key.
RECURSIVE SumShifts(_, _)
SumShifts(d, toks) ==
    IF toks = <<>> THEN Return(<<0>>)
    ELSE LET v == Subscript(d, Text(Head(toks)))
             rest == SumShifts(d, Tail(toks))
         IN IF v.exc # "" THEN v
            ELSE IF rest.exc # "" THEN rest
            ELSE Return(<<v.val[1] + rest.val[1]>>)

\* peptides.py:149-178
calc_precursor_mz(unmodified_mass, mods, charge) ==
    LET names == OddItems(Split(mods, "|"))
        mods_massses == SumShifts(mass_shifts, names)
        prec_mass == unmodified_mass + mods_massses.val[1]
        prec_mz == (prec_mass + charge * PROTON_MASS) \div charge
    IN /\ _mass_shifts' = IF names = <<>> THEN _mass_shifts ELSE Some(mass_shifts)
       /\ last' = [op |-> "calc_precursor_mz", arg |-> mods,
                   num |-> <<unmodified_mass, charge>>,
                   ret |-> IF mods_massses.exc # "" THEN mods_massses
                           ELSE Return(<<prec_mass, prec_mz>>)]
       /\ UNCHANGED <<modifications, _ptm_ids, _next_mod_id, assigned>>

-----------------------------------------------------------------------------
(* encode_peptide and apply_modifications, peptides.py:192-277 *)

\* peptides.py:215: len(peptide) > 100
MaxPeptideLen == 100
\* peptides.py:219: len(peptide) < 4
MinPeptideLen == 4

\* Bounds of the peptide runs.
MaxHead == 3       \* free characters in front of a run of "A"
MaxTokens == 4     \* tokens of a modification string

\* The characters of the peptides offered: two residues, L, a lower-case
\* letter, a letter outside the table, and "eszett", which stands for the one
\* character U+00DF, whose upper case is the two characters "SS".
PepChars == {"A", "M", "L", "m", "B", "eszett"}

\* str.upper() of one character: a sequence of characters.
UpperChar(c) ==
    CASE c = "m" -> <<"M">>
      [] c = "eszett" -> <<"S", "S">>
      [] OTHER -> <<c>>

\* peptide.upper()
RECURSIVE Upper(_)
Upper(s) == IF s = <<>> THEN <<>> ELSE UpperChar(Head(s)) \o Upper(Tail(s))

\* peptide.replace("L", "I")
ReplaceLI(s) == [i \in 1..Len(s) |-> IF s[i] = "L" THEN "I" ELSE s[i]]

\* peptides.py:212 without the fold of L into I.
NormalizeNoFold(peptide) == Upper(peptide)

\* peptides.py:212: peptide.upper().replace("L", "I")
Normalize(peptide) == ReplaceLI(Upper(peptide))

\* peptides.py:215 with the ceiling off by one.
TooLongOffByOne(p) == Len(p) >= MaxPeptideLen

\* peptides.py:215
TooLong(p) == Len(p) > MaxPeptideLen

\* peptides.py:219
TooShort(p) == Len(p) < MinPeptideLen

\* peptides.py:212-234: [ret, array]; array is what np.array built when ret
\* is no exception.  The message of line 231 is written without its backquotes.
encode_peptide(peptide) ==
    LET p == Normalize(peptide) IN
    IF TooLong(p)
    THEN [ret |-> Raise("InvalidPeptideError",
                        "Peptide sequence cannot be longer than 100 amino acids."),
          array |-> <<>>]
    ELSE IF TooShort(p)
    THEN [ret |-> Raise("InvalidPeptideError",
                        "Peptide sequence cannot be shorter than 4 amino acids."),
          array |-> <<>>]
    ELSE IF \E i \in 1..Len(p) : p[i] \notin DOMAIN AMINO_ACID_IDS
    THEN [ret |-> Raise("InvalidAminoAcidError",
                        "Unsupported amino acid found in peptide " \o Text(p)),
          array |-> <<>>]
    ELSE [ret |-> Return(<<>>),
          array |-> <<0>> \o [i \in 1..Len(p) |-> AMINO_ACID_IDS[p[i]]] \o <<0>>]

\* int(text): [ok, val].
DigitTexts == <<"0", "1", "2", "3", "4", "5", "6", "7", "8", "9">>

ParseInt(text) ==
    IF \E d \in 1..Len(DigitTexts) : DigitTexts[d] = text
    THEN [ok |-> TRUE, val |-> (CHOOSE d \in 1..Len(DigitTexts) : DigitTexts[d] = text) - 1]
    ELSE IF text = "-1" THEN [ok |-> TRUE, val |-> -1]
    ELSE [ok |-> FALSE, val |-> 0]

\* numpy's a[location]: the 1-based place of the element, 0 when out of bounds
\* (IndexError); a negative location counts from the end.
ArrayPlace(array, location) ==
    IF location >= 0 /\ location < Len(array) THEN location + 1
    ELSE IF location < 0 /\ location >= -Len(array) THEN Len(array) + location + 1
    ELSE 0

\* peptides.py:268-274, the passes from token i on (1-based) over the array of
\* the copy: [ret, array], array holding the writes made before a raise.
RECURSIVE ApplyLoop(_, _, _, _)
ApplyLoop(array, mods_split, i, ids) ==
    IF i > Len(mods_split) THEN [ret |-> Return(<<>>), array |-> array]
    ELSE
      LET location == ParseInt(Text(mods_split[i]))
          name == Text(mods_split[i + 1])
          place == ArrayPlace(array, location.val)
      IN IF ~location.ok
         THEN [ret |-> Raise("ValueError", Text(mods_split[i])), array |-> array]
         ELSE IF name \notin DOMAIN ids
         THEN [ret |-> Raise("UnknownModificationError", name), array |-> array]
         ELSE IF place = 0
         THEN [ret |-> Raise("IndexError", Text(mods_split[i])), array |-> array]
         ELSE ApplyLoop([array EXCEPT ![place] = ids[name]], mods_split, i + 2, ids)

\* np.copy without the copy: the same array again.
NpCopyAlias(h, ref) == [heap |-> h, ref |-> ref]

\* peptides.py:264: np.copy(a) is a new array with the elements of a.
NpCopy(h, ref) == [heap |-> Append(h, h[ref]), ref |-> Len(h) + 1]

\* peptides.py:263-277 on the array at ref: [ret, heap].
apply_modifications(h, ref, mods, ids) ==
    IF mods # <<>> /\ mods # <<"-">>
    THEN LET c == NpCopy(h, ref)
             mods_split == Split(mods, "|")
         IN IF Len(mods_split) % 2 # 0
            THEN [ret |-> Raise("InvalidModificationFormattingError", Text(mods)),
                  heap |-> c.heap]
            ELSE LET r == ApplyLoop(c.heap[c.ref], mods_split, 1, ids)
                     h2 == [c.heap EXCEPT ![c.ref] = r.array]
                 IN IF r.ret.exc # "" THEN [ret |-> r.ret, heap |-> h2]
                    ELSE [ret |-> Return(<<c.ref>>), heap |-> h2]
    ELSE [ret |-> Return(<<ref>>), heap |-> h]

\* A call of encode_peptide on the caller's peptide.
EncodePeptide ==
    /\ ppc = "start"
    /\ LET e == encode_peptide(pin.peptide)
       IN IF e.ret.exc # ""
          THEN /\ enc_ret' = e.ret
               /\ ppc' = "raised"
               /\ UNCHANGED heap
          ELSE /\ heap' = Append(heap, e.array)
               /\ enc_ret' = Return(<<Len(heap) + 1>>)
               /\ ppc' = "encoded"
    /\ UNCHANGED <<pin, app_ret, before>>

\* A call of apply_modifications on the array encode_peptide returned.
ApplyModifications ==
    /\ ppc = "encoded"
    /\ LET a == apply_modifications(heap, enc_ret.val[1], pin.modifications, pin.ptm_ids)
       IN /\ heap' = a.heap
          /\ app_ret' = a.ret
    /\ before' = heap[enc_ret.val[1]]
    /\ ppc' = "applied"
    /\ UNCHANGED <<pin, enc_ret>>

-----------------------------------------------------------------------------
(* predict_xgboost.py *)

\* Bounds of the prediction runs.
MaxBatch == 2       \* records of peprec
MaxIonTypes == 2    \* entries of xgboost_model_files

\* predict_xgboost.py:71-74: the array of a row's peptide; no upper-casing and
\* no length check here, and an unknown residue is a bare KeyError.
RowPeptide(peptide) ==
    LET p == ReplaceLI(peptide) IN
    IF \E i \in 1..Len(p) : p[i] \notin DOMAIN AMINO_ACID_IDS
    THEN [ret |-> Raise("KeyError",
                        p[CHOOSE i \in 1..Len(p) :
                              /\ p[i] \notin DOMAIN AMINO_ACID_IDS
                              /\ \A j \in 1..(i - 1) : p[j] \in DOMAIN AMINO_ACID_IDS]),
          array |-> <<>>]
    ELSE [ret |-> Return(<<>>),
          array |-> <<0>> \o [i \in 1..Len(p) |-> AMINO_ACID_IDS[p[i]]] \o <<0>>]

\* predict_xgboost.py:118-123, the passes from token i on: [ret, array].
RECURSIVE ApplyModsLoop(_, _, _, _)
ApplyModsLoop(array, l, i, PTMmap) ==
    IF i > Len(l) THEN [ret |-> Return(<<>>), array |-> array]
    ELSE
      LET tl == Text(l[i + 1])
          location == ParseInt(Text(l[i]))
          place == ArrayPlace(array, location.val)
      IN IF tl \notin DOMAIN PTMmap
         THEN [ret |-> Raise("UnknownModificationError", tl), array |-> array]
         ELSE IF ~location.ok
         THEN [ret |-> Raise("ValueError", Text(l[i])), array |-> array]
         ELSE IF place = 0
         THEN [ret |-> Raise("IndexError", Text(l[i])), array |-> array]
         ELSE ApplyModsLoop([array EXCEPT ![place] = PTMmap[tl]], l, i + 2, PTMmap)

\* predict_xgboost.py:106-125: [ret, array], array the copy it returns.
apply_mods(peptide, mods, PTMmap) ==
    IF mods # <<"-">>
    THEN LET l == Split(mods, "|")
         IN IF Len(l) % 2 # 0
            THEN [ret |-> Raise("InvalidModificationFormattingError", Text(mods)),
                  array |-> peptide]
            ELSE ApplyModsLoop(peptide, l, 1, PTMmap)
    ELSE [ret |-> Return(<<>>), array |-> peptide]

\* Rows of ms2pip_pyx.get_vector for a peptide of n residues: one per
\* backbone cleavage site.
GetVectorRows(n) == n - 1

\* predict_xgboost.py:69-84, the rows from k on: the exception of the first
\* row that raises, else the number of feature rows stacked so far.
RECURSIVE GetDataLoop(_, _, _, _)
GetDataLoop(peprec, k, ids, rows) ==
    IF k > Len(peprec) THEN Return(<<rows>>)
    ELSE LET e == RowPeptide(peprec[k].peptide)
             m == apply_mods(e.array, peprec[k].modifications, ids)
         IN IF e.ret.exc # "" THEN e.ret
            ELSE IF m.ret.exc # "" THEN m.ret
            ELSE GetDataLoop(peprec, k + 1, ids,
                             rows + GetVectorRows(Len(peprec[k].peptide)))

\* predict_xgboost.py:63-88; np.vstack of an empty list is a ValueError.
_get_ms2pip_data_for_xgb(peprec, ids) ==
    LET r == GetDataLoop(peprec, 1, ids, 0)
    IN IF r.exc # "" THEN r
       ELSE IF Len(peprec) = 0 THEN Raise("ValueError", "need at least one array to concatenate")
       ELSE r

\* predict_xgboost.py:27
NumIons(peprec) == [k \in 1..Len(peprec) |-> Len(peprec[k].peptide) - 1]

\* islice(it, n) on what is left of an iterator, n >= 0: the first n items,
\* fewer when it runs out.
Take(seq, n) == SubSeq(seq, 1, IF n < Len(seq) THEN n ELSE Len(seq))
Drop(seq, n) == SubSeq(seq, (IF n < Len(seq) THEN n ELSE Len(seq)) + 1, Len(seq))

\* predict_xgboost.py:91-93
RECURSIVE _split_list_by_lengths(_, _)
_split_list_by_lengths(list_in, lengths) ==
    IF lengths = <<>> THEN <<>>
    ELSE <<Take(list_in, Head(lengths))>>
         \o _split_list_by_lengths(Drop(list_in, Head(lengths)), Tail(lengths))

\* x[::-1]
Reversed(x) == [i \in 1..Len(x) |-> x[Len(x) + 1 - i]]

\* predict_xgboost.py:44-50: [ret, preds].
Reshape(ion_type, flat, num_ions) ==
    LET preds == _split_list_by_lengths(flat, num_ions)
    IN IF ion_type \in {"x", "y", "z"}
       THEN [ret |-> Return(<<>>),
             preds |-> [i \in 1..Len(preds) |-> Reversed(preds[i])]]
       ELSE IF ion_type \in {"a", "b", "c"}
       THEN [ret |-> Return(<<>>), preds |-> preds]
       ELSE [ret |-> Raise("ValueError", "Unsupported ion_type: " \o ion_type),
             preds |-> <<>>]


\* predict_xgboost.py:157-162: MODEL_hashes
MODEL_hashes ==
    [m \in {"model_20210316_Immuno_HCD_B.xgboost", "model_20210316_Immuno_HCD_Y.xgboost",
            "model_20210416_HCD2021_B.xgboost", "model_20210416_HCD2021_Y.xgboost"} |->
        CASE m = "model_20210316_Immuno_HCD_B.xgboost"
                 -> "977466d378de2e89c6ae15b4de8f07800d17a7b7"
          [] m = "model_20210316_Immuno_HCD_Y.xgboost"
                 -> "71948e1b9d6c69cb69b9baf84d361a9f80986fea"
          [] m = "model_20210416_HCD2021_B.xgboost"
                 -> "c086c599f618b199bbb36e2411701fb2866b24c8"
          [] m = "model_20210416_HCD2021_Y.xgboost"
                 -> "22a5a137e29e69fa6d4320ed7d701b61cbdc4fcf"]

\* predict_xgboost.py:165-170: the file is opened as `modelfile` and read
\* through `f`, a name bound nowhere: the first pass of the loop raises.
ReadChunks == Raise("NameError", "name 'f' is not defined")

\* predict_xgboost.py:171-174, on the digest of the bytes read.
CompareDigest(digest, model) ==
    IF model \notin DOMAIN MODEL_hashes THEN Raise("KeyError", model)
    ELSE IF digest # MODEL_hashes[model] THEN Raise("InvalidXGBoostModelError", "")
    ELSE Return(<<TRUE>>)

\* predict_xgboost.py:154-174 on ~/.ms2pip/<model>
check_model_integrity(files, model) ==
    IF files[model] = "absent" THEN Raise("FileNotFoundError", model)
    ELSE IF ReadChunks.exc # "" THEN ReadChunks
    ELSE CompareDigest(files[model], model)

\* predict_xgboost.py:128-139
check_model_presence(f, model) ==
    IF ~f.dir THEN Return(<<FALSE>>)
    ELSE IF f.files[model] = "absent" THEN Return(<<FALSE>>)
    ELSE LET c == check_model_integrity(f.files, model)
         IN IF c.exc # "" THEN c
            ELSE IF c.val[1] THEN Return(<<TRUE>>)
            ELSE Raise("UnknownFragmentationMethodError", "")

\* predict_xgboost.py:150: the url handed to urlretrieve
DownloadUrl == <<"modelfilepath">>

\* urllib.request.urlretrieve(url, path): opening a url that names no scheme
\* (no ":" in it) is ValueError("unknown url type"); otherwise the bytes served,
\* of digest `served`, are written to the path.
Urlretrieve(url, files, model, served) ==
    IF \A i \in 1..Len(url) : url[i] # ":"
    THEN [ret |-> Raise("ValueError", "unknown url type: " \o Text(url)), files |-> files]
    ELSE [ret |-> Return(<<>>), files |-> [files EXCEPT ![model] = served]]

\* predict_xgboost.py:142-151: [ret, fs]
download_model(f, model, served) ==
    LET u == Urlretrieve(DownloadUrl, f.files, model, served)
        f2 == [dir |-> TRUE, files |-> u.files]
    IN IF u.ret.exc # "" THEN [ret |-> u.ret, fs |-> f2]
       ELSE LET c == check_model_integrity(f2.files, model)
            IN IF c.exc # "" THEN [ret |-> c, fs |-> f2]
               ELSE [ret |-> Return(<<>>), fs |-> f2]

\* predict_xgboost.py:53: [list(t) for t in zip(*preds_list)]
Zipped(pl) ==
    IF pl = <<>> THEN <<>>
    ELSE [k \in 1..Len(pl[1]) |-> [j \in 1..Len(pl) |-> pl[j][k]]]


\* The values bst.predict can give for one row.
PredValues == {1, 2}
FlatVectors(n) == [1..n -> PredValues]

\* predict_xgboost.py:39-51 for one ion type, once its model file is accepted:
\* load, predict (one value per feature row), reshape, append.
LoopBodyTail(flat) ==
    LET r == Reshape(xin.ion_types[xit][1], flat, NumIons(xin.peprec))
    IN IF r.ret.exc # ""
       THEN /\ xpc' = "raised"
            /\ xret' = r.ret
            /\ UNCHANGED <<xit, flats, preds_list>>
       ELSE /\ xpc' = "loop"
            /\ xit' = xit + 1
            /\ flats' = Append(flats, flat)
            /\ preds_list' = Append(preds_list, r.preds)
            /\ UNCHANGED xret

\* predict_xgboost.py:24-30
GetMs2pipData ==
    /\ xpc = "start"
    /\ LET r == _get_ms2pip_data_for_xgb(xin.peprec, xin.ptm_ids)
       IN IF r.exc # ""
          THEN xpc' = "raised" /\ xret' = r /\ UNCHANGED num_rows
          ELSE xpc' = "loop" /\ num_rows' = r.val[1] /\ UNCHANGED xret
    /\ xstep' = "_get_ms2pip_data_for_xgb"
    /\ UNCHANGED <<fs, xin, xit, flats, preds_list>>
    /\ UNCHANGED <<regvars, pepvars, dlvars>>

\* predict_xgboost.py:33-35, and 39-51 when the model is found present
CheckModelPresence ==
    /\ xpc = "loop"
    /\ xit <= Len(xin.ion_types)
    /\ LET c == check_model_presence(fs, xin.ion_types[xit][2])
       IN IF c.exc # ""
          THEN xpc' = "raised" /\ xret' = c /\ UNCHANGED <<xit, flats, preds_list>>
          ELSE IF c.val[1]
          THEN \E flat \in FlatVectors(num_rows) : LoopBodyTail(flat)
          ELSE xpc' = "download" /\ UNCHANGED <<xit, flats, preds_list, xret>>
    /\ xstep' = "check_model_presence"
    /\ UNCHANGED <<fs, xin, num_rows>>
    /\ UNCHANGED <<regvars, pepvars, dlvars>>

\* The digests a served file can have.
Digests == {MODEL_hashes["model_20210416_HCD2021_B.xgboost"],
            "da39a3ee5e6b4b0d3255bfef95601890afd80709"}

\* predict_xgboost.py:36, and 39-51 when download_model returns
DownloadModel ==
    /\ xpc = "download"
    /\ \E served \in Digests :
         LET d == download_model(fs, xin.ion_types[xit][2], served)
         IN /\ fs' = d.fs
            /\ IF d.ret.exc # ""
               THEN xpc' = "raised" /\ xret' = d.ret /\ UNCHANGED <<xit, flats, preds_list>>
               ELSE \E flat \in FlatVectors(num_rows) : LoopBodyTail(flat)
    /\ xstep' = "download_model"
    /\ UNCHANGED <<xin, num_rows>>
    /\ UNCHANGED <<regvars, pepvars, dlvars>>

\* predict_xgboost.py:53-60, the loop over
ReturnBatch ==
    /\ xpc = "loop"
    /\ xit > Len(xin.ion_types)
    /\ xpc' = "returned"
    /\ xret' = Return(Zipped(preds_list))
    /\ xstep' = "process_peptides_xgb"
    /\ UNCHANGED <<fs, xin, xit, num_rows, flats, preds_list>>
    /\ UNCHANGED <<regvars, pepvars, dlvars>>

-----------------------------------------------------------------------------
(* The runs *)

\* Modifications.__init__, peptides.py:62-70
RegInit ==
    /\ modifications = << [mod_type |-> "ptm", mods |-> EmptyDict],
                          [mod_type |-> "sptm", mods |-> EmptyDict] >>
    /\ _mass_shifts = None
    /\ _ptm_ids = None
    /\ _next_mod_id = FirstModId
    /\ assigned = <<>>
    /\ last = [op |-> "__init__", arg |-> <<>>, num |-> <<>>, ret |-> Return(<<>>)]

\* A ptm_ids mapping as the registry gives it for Oxidation and Acetyl.
CallerPtmIds == [n \in {"Oxidation", "Acetyl"} |-> IF n = "Oxidation" THEN 38 ELSE 39]

\* No encode / apply run.
PepIdle ==
    /\ pin = [peptide |-> <<>>, modifications |-> <<>>, ptm_ids |-> CallerPtmIds]
    /\ heap = <<>>
    /\ ppc = "idle"
    /\ enc_ret = Return(<<>>)
    /\ app_ret = Return(<<>>)
    /\ before = <<>>

ModelFiles == {"model_20210416_HCD2021_B.xgboost", "unlisted.xgboost"}

\* No prediction run.
XgbIdle ==
    /\ fs = [dir |-> FALSE, files |-> [m \in ModelFiles |-> "absent"]]
    /\ xin = [peprec |-> <<>>, ion_types |-> <<>>, ptm_ids |-> CallerPtmIds]
    /\ xpc = "idle"
    /\ xit = 1
    /\ num_rows = 0
    /\ flats = <<>>
    /\ preds_list = <<>>
    /\ xstep = ""
    /\ xret = Return(<<>>)

\* ---- the registry: registrations and lookups in any order
Register ==
    /\ \E ms \in SeqsUpTo(RegModstrings, MaxModstrings), t \in ModTypes :
          add_from_ms2pip_modstrings(ms, t)
    /\ UNCHANGED <<pepvars, xgbvars, dlvars>>

LookupMassShift ==
    /\ \E n \in LookupNames : ReadMassShift(n)
    /\ UNCHANGED <<pepvars, xgbvars, dlvars>>

LookupPtmId ==
    /\ \E n \in LookupNames : ReadPtmId(n)
    /\ UNCHANGED <<pepvars, xgbvars, dlvars>>

CalcPrecursorMz ==
    /\ \E u \in UnmodifiedMasses, m \in CalcModifications, c \in Charges :
          calc_precursor_mz(u, m, c)
    /\ UNCHANGED <<pepvars, xgbvars, dlvars>>

\* The callers of the concurrent run.
Callers == {"caller1", "caller2"}

\* No concurrent run.
CallersIdle == callers = [c \in Callers |-> [pc |-> "idle", ret |-> Return(<<>>)]]

Init == RegInit /\ PepIdle /\ XgbIdle /\ CallersIdle
Next == Register \/ LookupPtmId \/ LookupMassShift
Spec == Init /\ [][Next]_vars

\* ---- the registry: registrations and precursor mass calculations
NextCalc == Register \/ CalcPrecursorMz
SpecCalc == Init /\ [][NextCalc]_vars

\* ---- encode_peptide, then apply_modifications, on one caller's arguments
Peptide(head, k) == head \o [i \in 1..k |-> "A"]

\* Lengths around both limits: a head of up to MaxHead characters before a run
\* of 0..MinPeptideLen or of about MaxPeptideLen times "A".
RunLens == (0..MinPeptideLen) \cup ((MaxPeptideLen - MaxHead)..(MaxPeptideLen + 1))
Peptides == {Peptide(h, k) : h \in SeqsUpTo(PepChars, MaxHead), k \in RunLens}

\* The peptides modification strings are tried on.
ApplyPeptides == { <<"A", "M", "L", "A">>,
                   <<"m", "A", "A", "A", "A", "A", "A", "A">> }

ModTokens == {"0", "2", "9", "-1", "Acetyl", "Oxidation", "Phospho"}
ModStrings == {Join(t, "|") : t \in SeqsUpTo(ModTokens, MaxTokens)} \cup {<<"-">>}

PepInputs ==
    (Peptides \X {<<>>, <<"-">>}) \cup (ApplyPeptides \X ModStrings)

PepInit ==
    /\ \E i \in PepInputs :
          pin = [peptide |-> i[1], modifications |-> i[2], ptm_ids |-> CallerPtmIds]
    /\ heap = <<>>
    /\ ppc = "start"
    /\ enc_ret = Return(<<>>)
    /\ app_ret = Return(<<>>)
    /\ before = <<>>

InitPeptide == RegInit /\ PepInit /\ XgbIdle /\ CallersIdle
NextPeptide ==
    \/ EncodePeptide /\ UNCHANGED <<regvars, xgbvars, dlvars>>
    \/ ApplyModifications /\ UNCHANGED <<regvars, xgbvars, dlvars>>
SpecPeptide == InitPeptide /\ [][NextPeptide]_vars

\* ---- one process_peptides_xgb call
XPeptides == { <<"A", "M", "L", "A">>, <<"A", "A", "A", "A", "A">>, <<"A", "B", "A", "A">>,
               <<"A", "A", "A">> }
XRows ==
    {[peptide |-> p, modifications |-> m, charge |-> 2, spec_id |-> "s"] :
        p \in XPeptides, m \in {<<>>, <<"-">>}}
    \cup {[peptide |-> <<"A", "M", "L", "A">>, modifications |-> m, charge |-> 2,
           spec_id |-> "s"] :
            m \in {Join(<<"0", "Acetyl">>, "|"), Join(<<"2", "Phospho">>, "|")}}

IonTypes == {"b", "y", "q"}
\* xgboost_model_files.items(): ordered, one entry per ion type.
IonTypeModels ==
    {s \in SeqsUpTo(IonTypes \X ModelFiles, MaxIonTypes) :
        \A i, j \in 1..Len(s) : i # j => s[i][1] # s[j][1]}

\* ~/.ms2pip either does not exist, or holds each file intact, corrupt or not at all.
FileSystems ==
    {[dir |-> FALSE, files |-> [m \in ModelFiles |-> "absent"]]}
    \cup {[dir |-> TRUE, files |-> f] : f \in [ModelFiles -> Digests \cup {"absent"}]}

XgbInit ==
    /\ fs \in FileSystems
    /\ \E b \in SeqsUpTo(XRows, MaxBatch), it \in IonTypeModels :
          xin = [peprec |-> b, ion_types |-> it, ptm_ids |-> CallerPtmIds]
    /\ xpc = "start"
    /\ xit = 1
    /\ num_rows = 0
    /\ flats = <<>>
    /\ preds_list = <<>>
    /\ xstep = ""
    /\ xret = Return(<<>>)

InitPredict == RegInit /\ PepIdle /\ XgbInit /\ CallersIdle
NextPredict == GetMs2pipData \/ CheckModelPresence \/ DownloadModel \/ ReturnBatch
SpecPredict == InitPredict /\ [][NextPredict]_vars

\* ---- two callers of process_peptides_xgb with the same model file, each in
\* lines 35-36 (check_model_presence, then download_model); ~/.ms2pip is
\* shared, every os.path / os / urllib call is one step.
SharedModel == xin.ion_types[1][2]

SetCaller(c, pc, ret) == callers' = [callers EXCEPT ![c] = [pc |-> pc, ret |-> ret]]

\* predict_xgboost.py:132-133; False sends the caller on to download_model.
PresenceIsDir(c) ==
    /\ callers[c].pc = "isdir"
    /\ IF ~fs.dir THEN SetCaller(c, "download_isdir", Return(<<FALSE>>))
       ELSE SetCaller(c, "isfile", Return(<<>>))
    /\ UNCHANGED <<regvars, pepvars, xgbvars>>

\* predict_xgboost.py:134-139
PresenceIsFile(c) ==
    /\ callers[c].pc = "isfile"
    /\ IF fs.files[SharedModel] = "absent"
       THEN SetCaller(c, "download_isdir", Return(<<FALSE>>))
       ELSE LET i == check_model_integrity(fs.files, SharedModel)
            IN IF i.exc # "" THEN SetCaller(c, "raised", i)
               ELSE IF i.val[1] THEN SetCaller(c, "load_model", Return(<<TRUE>>))
               ELSE SetCaller(c, "raised", Raise("UnknownFragmentationMethodError", ""))
    /\ UNCHANGED <<regvars, pepvars, xgbvars>>

\* predict_xgboost.py:146
DownloadIsDir(c) ==
    /\ callers[c].pc = "download_isdir"
    /\ IF ~fs.dir THEN SetCaller(c, "mkdir", Return(<<>>))
       ELSE SetCaller(c, "urlretrieve", Return(<<>>))
    /\ UNCHANGED <<regvars, pepvars, xgbvars>>

\* predict_xgboost.py:147: os.mkdir of a directory that exists is
\* FileExistsError.
DownloadMkdir(c) ==
    /\ callers[c].pc = "mkdir"
    /\ IF fs.dir
       THEN /\ SetCaller(c, "raised", Raise("FileExistsError", ".ms2pip"))
            /\ UNCHANGED fs
       ELSE /\ SetCaller(c, "urlretrieve", Return(<<>>))
            /\ fs' = [fs EXCEPT !.dir = TRUE]
    /\ UNCHANGED <<xin, xpc, xit, num_rows, flats, preds_list, xstep, xret>>
    /\ UNCHANGED <<regvars, pepvars>>

\* predict_xgboost.py:150-151
DownloadUrlretrieve(c) ==
    /\ callers[c].pc = "urlretrieve"
    /\ \E served \in Digests :
         LET u == Urlretrieve(DownloadUrl, fs.files, SharedModel, served)
             i == check_model_integrity(u.files, SharedModel)
         IN /\ fs' = [fs EXCEPT !.files = u.files]
            /\ IF u.ret.exc # "" THEN SetCaller(c, "raised", u.ret)
               ELSE IF i.exc # "" THEN SetCaller(c, "raised", i)
               ELSE SetCaller(c, "load_model", Return(<<>>))
    /\ UNCHANGED <<xin, xpc, xit, num_rows, flats, preds_list, xstep, xret>>
    /\ UNCHANGED <<regvars, pepvars>>

\* Both callers at line 35, for a model file that is not in ~/.ms2pip.
ConcurrentInit ==
    /\ \E m \in ModelFiles :
          /\ xin = [peprec |-> <<>>, ion_types |-> << <<"b", m>> >>,
                    ptm_ids |-> CallerPtmIds]
          /\ fs \in {f \in FileSystems : f.files[m] = "absent"}
    /\ xpc = "idle"
    /\ xit = 1
    /\ num_rows = 0
    /\ flats = <<>>
    /\ preds_list = <<>>
    /\ xstep = ""
    /\ xret = Return(<<>>)
    /\ callers = [c \in Callers |-> [pc |-> "isdir", ret |-> Return(<<>>)]]

InitConcurrent == RegInit /\ PepIdle /\ ConcurrentInit
NextConcurrent ==
    \/ \E c \in Callers : PresenceIsDir(c)
    \/ \E c \in Callers : PresenceIsFile(c)
    \/ \E c \in Callers : DownloadIsDir(c)
    \/ \E c \in Callers : DownloadMkdir(c)
    \/ \E c \in Callers : DownloadUrlretrieve(c)
SpecConcurrent == InitConcurrent /\ [][NextConcurrent]_vars


-----------------------------------------------------------------------------
(* Properties of the registry *)

PtmMods == modifications[ModTypeIndex(modifications, "ptm")].mods
SptmMods == modifications[ModTypeIndex(modifications, "sptm")].mods

\* The place in `assigned` of the latest entry stored for (name, mod_type).
LatestAssigned(name, mod_type) ==
    CHOOSE k \in 1..Len(assigned) :
        /\ assigned[k].name = name /\ assigned[k].mod_type = mod_type
        /\ \A j \in (k + 1)..Len(assigned) :
              ~(assigned[j].name = name /\ assigned[j].mod_type = mod_type)

\* C1: the k-th entry ever stored got id 38 + (k-1), whatever the calls and
\* categories; the counter stands at 38 + the number of entries stored; every
\* entry held by the registry carries the id of its latest registration, so no
\* id is held by two entries and a re-registered name has a fresh id.
C1_SequentialIds ==
    /\ \A k \in 1..Len(assigned) : assigned[k].mod_id = FirstModId + (k - 1)
    /\ _next_mod_id = FirstModId + Len(assigned)
    /\ \A i \in 1..Len(modifications) : \A n \in DOMAIN modifications[i].mods :
          /\ \E k \in 1..Len(assigned) :
                assigned[k].name = n /\ assigned[k].mod_type = modifications[i].mod_type
          /\ modifications[i].mods[n].mod_id
                = FirstModId + (LatestAssigned(n, modifications[i].mod_type) - 1)
    /\ \A i, j \in 1..Len(modifications) :
          \A n \in DOMAIN modifications[i].mods, m \in DOMAIN modifications[j].mods :
             modifications[i].mods[n].mod_id = modifications[j].mods[m].mod_id
                => i = j /\ n = m

\* Three entries stored over both categories, one name registered twice in ptm.
C1_Witness ==
    /\ Len(assigned) = 3
    /\ \E j, k \in 1..3 : /\ j < k
                          /\ assigned[j].name = assigned[k].name
                          /\ assigned[j].mod_type = "ptm" /\ assigned[k].mod_type = "ptm"
    /\ \E k \in 1..3 : assigned[k].mod_type = "sptm"
    /\ "Oxidation" \in DOMAIN PtmMods /\ PtmMods["Oxidation"].mod_id > FirstModId

\* C2: a lookup of mass_shifts[name] or ptm_ids[name] gives what the registry
\* holds at that moment: the value of a mapping built from every modification
\* registered so far, never one built before a later registration.
C2_NoStaleLookup ==
    /\ last.op = "mass_shifts"
          => last.ret = Subscript(MassShiftDict(modifications), last.arg[1])
    /\ last.op = "ptm_ids"
          => last.ret = Subscript(PtmIdDict(modifications), last.arg[1])

\* The name is registered in ptm and in sptm.
InBoth(name) == name \in DOMAIN PtmMods /\ name \in DOMAIN SptmMods

\* Of the two registrations of a name, the one made later in time.
LaterOfBoth(name) ==
    IF PtmMods[name].mod_id > SptmMods[name].mod_id THEN PtmMods[name] ELSE SptmMods[name]

\* C3 as stated: for a name registered in ptm and in sptm, mass_shifts[name]
\* and ptm_ids[name] give the values of the registration made later.
C3_LaterRegistrationWins ==
    /\ (last.op = "mass_shifts" /\ InBoth(last.arg[1]))
          => last.ret = Return(<<LaterOfBoth(last.arg[1]).mass_shift>>)
    /\ (last.op = "ptm_ids" /\ InBoth(last.arg[1]))
          => last.ret = Return(<<LaterOfBoth(last.arg[1]).mod_id>>)

\* C3 amended: for a name registered in ptm and in sptm, a lookup that builds
\* its mapping (the cache it reads is None or empty) gives the values of the
\* sptm registration, whichever of the two was made first.
C3_SptmWinsOnRebuild ==
    [][ /\ (last'.op = "mass_shifts" /\ Falsy(_mass_shifts) /\ InBoth(last'.arg[1]))
           => last'.ret = Return(<<SptmMods[last'.arg[1]].mass_shift>>)
        /\ (last'.op = "ptm_ids" /\ Falsy(_ptm_ids) /\ InBoth(last'.arg[1]))
           => last'.ret = Return(<<SptmMods[last'.arg[1]].mod_id>>) ]_vars

\* A lookup of a name whose ptm registration is the later one and differs in
\* mass shift from the sptm one, answered with the sptm value.
C3_Witness ==
    /\ last.op = "mass_shifts"
    /\ InBoth(last.arg[1])
    /\ PtmMods[last.arg[1]].mod_id > SptmMods[last.arg[1]].mod_id
    /\ PtmMods[last.arg[1]].mass_shift # SptmMods[last.arg[1]].mass_shift
    /\ last.ret = Return(<<SptmMods[last.arg[1]].mass_shift>>)

\* The name tokens of a modification string.
NameTokens(mods) == OddItems(Split(mods, "|"))

RECURSIVE SumOfShifts(_, _)
SumOfShifts(d, toks) ==
    IF toks = <<>> THEN 0 ELSE d[Text(Head(toks))] + SumOfShifts(d, Tail(toks))

\* C10: calc_precursor_mz fails with UnknownModificationError when a name of
\* the modification string is not registered, and otherwise its mass is the
\* unmodified mass plus the mass shift of every name token.
C10_UnknownModification ==
    last.op = "calc_precursor_mz" =>
       IF \E k \in 1..Len(NameTokens(last.arg)) :
             Text(NameTokens(last.arg)[k]) \notin AllNames(modifications)
       THEN last.ret.exc = "UnknownModificationError"
       ELSE /\ last.ret.exc = ""
            /\ last.ret.val[1] = last.num[1]
                  + SumOfShifts(MassShiftDict(modifications), NameTokens(last.arg))

-----------------------------------------------------------------------------
(* Properties of encode_peptide and apply_modifications *)

\* encode_peptide has run on the caller's peptide.
Encoded == ppc \in {"encoded", "applied", "raised"}

\* The peptide after upper-casing and folding L to I.
Folded(peptide) == ReplaceLI(Upper(peptide))

AllResidues(p) == \A i \in 1..Len(p) : p[i] \in AminoAcidSet

\* The first character of p that is no table residue.
FirstUnrecognized(p) ==
    p[CHOOSE i \in 1..Len(p) :
         /\ p[i] \notin AminoAcidSet
         /\ \A j \in 1..(i - 1) : p[j] \in AminoAcidSet]

\* C4 as stated: encode succeeds exactly when the peptide has 4 to 100
\* characters and each, upper-cased and folded, is a table residue; it fails
\* with InvalidPeptideError when the length is below 4 or above 100, and
\* otherwise with InvalidAminoAcidError naming the first unrecognized symbol.
C4_EncodeOutcome ==
    Encoded =>
       LET n == Len(pin.peptide)
           f == Folded(pin.peptide)
           lenOk == n >= 4 /\ n <= 100
       IN /\ (enc_ret.exc = "") <=> (lenOk /\ AllResidues(f))
          /\ ~lenOk => enc_ret.exc = "InvalidPeptideError"
          /\ (lenOk /\ ~AllResidues(f)) =>
                /\ enc_ret.exc = "InvalidAminoAcidError"
                /\ enc_ret.msg = FirstUnrecognized(f)

\* C4 amended: the length that counts is the length after upper-casing and
\* folding (upper-casing can lengthen a string), and the InvalidAminoAcidError
\* carries the whole upper-cased, folded peptide, not the unrecognized symbol.
C4_EncodeOutcomeAmended ==
    Encoded =>
       LET f == Folded(pin.peptide)
           lenOk == Len(f) >= 4 /\ Len(f) <= 100
       IN /\ (enc_ret.exc = "") <=> (lenOk /\ AllResidues(f))
          /\ ~lenOk => enc_ret.exc = "InvalidPeptideError"
          /\ (lenOk /\ ~AllResidues(f)) =>
                /\ enc_ret.exc = "InvalidAminoAcidError"
                /\ enc_ret.msg = "Unsupported amino acid found in peptide " \o Text(f)

\* A peptide of exactly 100 characters after folding, one of them outside the
\* table, refused for the character and not for its length.
C4_Witness ==
    /\ ppc = "raised"
    /\ Len(Folded(pin.peptide)) = 100
    /\ enc_ret.exc = "InvalidAminoAcidError"

\* A peptide of 4 to 100 characters, each one of the 19 residues or L.
ValidPeptide(peptide) ==
    /\ Len(peptide) >= 4 /\ Len(peptide) <= 100
    /\ \A i \in 1..Len(peptide) : peptide[i] \in AminoAcidSet \cup {"L"}

\* The table id of a residue, L having the id of I.
ResidueId(c) == AMINO_ACID_IDS[IF c = "L" THEN "I" ELSE c]

\* C5: for a valid peptide and the modification string "" or "-", neither
\* call raises, and what apply_modifications returns has peptide_length + 2
\* elements: 0, the table id of each residue in order, 0.
C5_EncodeThenApplyEmpty ==
    (ValidPeptide(pin.peptide) /\ pin.modifications \in {<<>>, <<"-">>}) =>
       /\ ppc # "raised"
       /\ ppc = "applied" =>
             /\ app_ret.exc = ""
             /\ LET a == heap[app_ret.val[1]]
                    n == Len(pin.peptide)
                IN /\ Len(a) = n + 2
                   /\ a[1] = 0 /\ a[n + 2] = 0
                   /\ \A i \in 1..n : a[i + 1] = ResidueId(pin.peptide[i])

\* A peptide of 100 characters with an L in it, applied with "".
C5_Witness ==
    /\ ppc = "applied"
    /\ ValidPeptide(pin.peptide)
    /\ Len(pin.peptide) = 100
    /\ \E i \in 1..Len(pin.peptide) : pin.peptide[i] = "L"
    /\ pin.modifications = <<>>
    /\ app_ret.exc = ""

\* The (position, name) pairs of a modification string, in order.
PairCount(mods) == Len(Split(mods, "|")) \div 2
PairPosition(mods, k) == ParseInt(Text(Split(mods, "|")[2 * k - 1])).val
PairName(mods, k) == Text(Split(mods, "|")[2 * k])

\* The element a position names in an array of n elements: position 0 is the
\* first; a negative position counts from the end, as numpy reads it.
ElementAt(position, n) == IF position >= 0 THEN position + 1 ELSE n + position + 1

\* The pairs of mods that name element i.
PairsAt(mods, i, n) == {k \in 1..PairCount(mods) : ElementAt(PairPosition(mods, k), n) = i}

Max(S) == CHOOSE x \in S : \A y \in S : y <= x

\* C6: apply_modifications leaves the caller's array as it was, whether it
\* returns or raises; when it returns for a modification string that lists
\* pairs, the result is another array, equal to the caller's except at the
\* listed positions, each holding the id of the name of the last pair listing it.
C6_CopyOnWrite ==
    ppc = "applied" =>
       /\ heap[enc_ret.val[1]] = before
       /\ (app_ret.exc = "" /\ pin.modifications \notin {<<>>, <<"-">>}) =>
             LET a == heap[app_ret.val[1]]
                 n == Len(before)
             IN /\ app_ret.val[1] # enc_ret.val[1]
                /\ Len(a) = n
                /\ \A i \in 1..n :
                      a[i] = IF PairsAt(pin.modifications, i, n) = {} THEN before[i]
                             ELSE pin.ptm_ids[PairName(pin.modifications,
                                                       Max(PairsAt(pin.modifications, i, n)))]

\* "2|Oxidation|0|Acetyl|2|Acetyl" applied with success: position 2 listed
\* twice, the last pair winning, the caller's array untouched.
C6_Witness ==
    /\ ppc = "applied"
    /\ app_ret.exc = ""
    /\ pin.modifications = Join(<<"2", "Oxidation", "2", "Acetyl">>, "|")
    /\ heap[app_ret.val[1]][3] = pin.ptm_ids["Acetyl"]
    /\ heap[enc_ret.val[1]][3] # pin.ptm_ids["Acetyl"]

-----------------------------------------------------------------------------
(* Properties of process_peptides_xgb *)

\* The call is over.
XgbDone == xpc \in {"returned", "raised"}

\* Every record of the batch gets through _get_ms2pip_data_for_xgb.
DataOk == _get_ms2pip_data_for_xgb(xin.peprec, xin.ptm_ids).exc = ""

SupportedIonTypes == {"a", "b", "c", "x", "y", "z"}

\* Values of the flat vector that precede the group of record i.
RECURSIVE GroupOffset(_, _)
GroupOffset(peprec, i) ==
    IF i <= 1 THEN 0
    ELSE GroupOffset(peprec, i - 1) + (Len(peprec[i - 1].peptide) - 1)

\* The group of record i: peptide_length_i - 1 consecutive values of the flat
\* vector, reversed for x, y and z.
ExpectedGroup(ion_type, flat, peprec, i) ==
    LET g == SubSeq(flat, GroupOffset(peprec, i) + 1,
                    GroupOffset(peprec, i) + Len(peprec[i].peptide) - 1)
    IN IF ion_type \in {"x", "y", "z"} THEN Reversed(g) ELSE g

\* C7: for a batch whose records all encode and ion types that are all
\* supported, the call returns, for every ion type, one group per record in
\* input order, the i-th being peptide_length_i - 1 consecutive values of that
\* ion type's flat vector, reversed for x, y, z and as given for a, b, c.
C7_GroupsPerRecord ==
    (/\ XgbDone
     /\ DataOk
     /\ Len(xin.ion_types) >= 1
     /\ \A j \in 1..Len(xin.ion_types) : xin.ion_types[j][1] \in SupportedIonTypes) =>
       /\ xpc = "returned"
       /\ Len(preds_list) = Len(xin.ion_types)
       /\ \A j \in 1..Len(preds_list) :
             /\ Len(preds_list[j]) = Len(xin.peprec)
             /\ \A i \in 1..Len(xin.peprec) :
                   preds_list[j][i]
                      = ExpectedGroup(xin.ion_types[j][1], flats[j], xin.peprec, i)

\* C8: a call whose ion-type mapping holds an ion type outside a, b, c, x, y, z
\* (its records all encoding) ends with the unsupported-ion-type error,
\* ValueError("Unsupported ion_type: ..."), and returns nothing.
C8_UnsupportedIonType ==
    (/\ XgbDone
     /\ DataOk
     /\ \E j \in 1..Len(xin.ion_types) : xin.ion_types[j][1] \notin SupportedIonTypes) =>
       /\ xpc = "raised"
       /\ xret.exc = "ValueError"
       /\ \E j \in 1..Len(xin.ion_types) :
             /\ xin.ion_types[j][1] \notin SupportedIonTypes
             /\ xret.msg = "Unsupported ion_type: " \o xin.ion_types[j][1]

\* The file of the model is there and its digest is the one MODEL_hashes
\* records for its name.
Verified(f, model) ==
    /\ f.dir
    /\ f.files[model] # "absent"
    /\ model \in DOMAIN MODEL_hashes
    /\ f.files[model] = MODEL_hashes[model]

\* C9: a model is taken as usable (the loop goes on to load it) only with its
\* file verified; a presence check that finds the file there with another
\* digest, or under a name MODEL_hashes does not list, fails with
\* InvalidXGBoostModelError.
C9_OnlyVerifiedModels ==
    /\ (xstep \in {"check_model_presence", "download_model"} /\ xpc = "loop")
          => Verified(fs, xin.ion_types[xit - 1][2])
    /\ (/\ xstep = "check_model_presence"
        /\ xpc = "raised"
        /\ fs.dir
        /\ fs.files[xin.ion_types[xit][2]] # "absent"
        /\ ~Verified(fs, xin.ion_types[xit][2]))
          => xret.exc = "InvalidXGBoostModelError"


-----------------------------------------------------------------------------
(* The encoding step of the predictor against encode_peptide and
   apply_modifications *)

\* encode_peptide, then apply_modifications, on one record:
\* [ret, peptide, modpeptide], the arrays when ret is no exception.
EncodeThenApply(row, ids) ==
    LET e == encode_peptide(row.peptide)
        a == apply_modifications(<<e.array>>, 1, row.modifications, ids)
    IN IF e.ret.exc # "" THEN [ret |-> e.ret, peptide |-> <<>>, modpeptide |-> <<>>]
       ELSE IF a.ret.exc # "" THEN [ret |-> a.ret, peptide |-> <<>>, modpeptide |-> <<>>]
       ELSE [ret |-> Return(<<>>), peptide |-> e.array,
             modpeptide |-> a.heap[a.ret.val[1]]]

\* Lines 71-75 of predict_xgboost.py on one record, in the same shape.
OwnEncodingStep(row, ids) ==
    LET e == RowPeptide(row.peptide)
        m == apply_mods(e.array, row.modifications, ids)
    IN IF e.ret.exc # "" THEN [ret |-> e.ret, peptide |-> <<>>, modpeptide |-> <<>>]
       ELSE IF m.ret.exc # "" THEN [ret |-> m.ret, peptide |-> <<>>, modpeptide |-> <<>>]
       ELSE [ret |-> Return(<<>>), peptide |-> e.array, modpeptide |-> m.array]

\* The records of the batch on which encode_peptide or apply_modifications raise.
RaisingRows == {k \in 1..Len(xin.peprec) :
                  EncodeThenApply(xin.peprec[k], xin.ptm_ids).ret.exc # ""}

FirstRaisingRow == CHOOSE k \in RaisingRows : \A j \in RaisingRows : k <= j

\* C11: once _get_ms2pip_data_for_xgb has run over the batch, it has raised
\* exactly when encode_peptide followed by apply_modifications raise on some
\* record, with the exception class they raise on the first such record
\* (InvalidPeptideError, InvalidAminoAcidError,
\* InvalidModificationFormattingError, UnknownModificationError); otherwise
\* every record, one with an empty modification string included, got the
\* unmodified and modified arrays they return.
C11_EncodingStepAgrees ==
    (xstep = "_get_ms2pip_data_for_xgb" /\ Len(xin.peprec) >= 1) =>
       IF RaisingRows # {}
       THEN /\ xpc = "raised"
            /\ xret.exc = EncodeThenApply(xin.peprec[FirstRaisingRow], xin.ptm_ids).ret.exc
       ELSE /\ xpc = "loop"
            /\ \A k \in 1..Len(xin.peprec) :
                  LET own == OwnEncodingStep(xin.peprec[k], xin.ptm_ids)
                      ref == EncodeThenApply(xin.peprec[k], xin.ptm_ids)
                  IN /\ own.peptide = ref.peptide
                     /\ own.modpeptide = ref.modpeptide


-----------------------------------------------------------------------------
(* The order of inference and reshaping within one call *)

\* C12: in a call over two or more ion types, a reshaped prediction vector
\* (an entry of preds_list, appended at line 51 after the split and reversal
\* of lines 44-48) exists only when the inference passes of all configured ion
\* types have been made (flats holds one predicted vector per ion type).
C12_ReshapeAfterAllInference ==
    (Len(xin.ion_types) >= 2 /\ Len(preds_list) >= 1) =>
        Len(flats) = Len(xin.ion_types)

\* An inference pass or a reshape has taken place in a call over two or more
\* ion types.
C12_InferenceReached ==
    Len(xin.ion_types) >= 2 /\ (Len(flats) >= 1 \/ Len(preds_list) >= 1)


-----------------------------------------------------------------------------
(* Callers that fetch the same model file at the same time *)

\* The caller is inside download_model (lines 145-151).
InDownloadModel(c) == callers[c].pc \in {"download_isdir", "mkdir", "urlretrieve", "writing"}

\* The caller is verifying the file (check_model_integrity) or about to load it.
VerifyingOrLoading(c) == callers[c].pc \in {"isfile", "load_model"}

\* C13: of two callers after the same absent model file, at most one is inside
\* download_model at a time and at most one ever enters it (no double
\* download), and none verifies or loads the file while the other is writing
\* it.
C13_DownloadsSerialized ==
    \A c, d \in Callers :
        c # d =>
           /\ ~(InDownloadModel(c) /\ InDownloadModel(d))
           /\ ~(/\ callers[c].ret.exc \in {"ValueError", "FileExistsError"}
                /\ (InDownloadModel(d)
                       \/ callers[d].ret.exc \in {"ValueError", "FileExistsError"}))
           /\ ~(callers[c].pc = "writing" /\ VerifyingOrLoading(d))

=============================================================================
